---- MODULE Spec2Model ----
(***************************************************************************)
(* Model of src/components/DigitalTwinSimulation.tsx: the React component  *)
(* DigitalTwinSimulation as a state machine.                               *)
(*                                                                         *)
(* Numbers.  The chemistry levels move in steps of 0.5 (the "none" drift), *)
(* so every level is kept here as an integer count of half units:          *)
(* 50 is written 50 * Unit = 100 and 0.5 is written Half = 1.              *)
(*                                                                         *)
(* Strings.  An interaction type is a sequence of one-character strings so *)
(* that event.replace('_', ' ').toUpperCase() is computed character by     *)
(* character.                                                              *)
(*                                                                         *)
(* Timers.  window.setInterval hands out increasing handles, starting at   *)
(* 1; `timers` is the set of intervals the browser still holds, each with  *)
(* the `chemistry` its callback closed over.  intervalRef.current = null   *)
(* is written 0 (the code only tests it for truthiness).                   *)
(*                                                                         *)
(* Left out: the wall-clock `timestamp` / `time` strings of log entries    *)
(* and history points, and the msg / color texts of a recommendation.      *)
(***************************************************************************)
EXTENDS Integers, Sequences, FiniteSets, TLC

VARIABLES isRunning, chemistry, logs, history, logIdRef, intervalRef,
          nextHandle, timers, recommendations, event

vars == <<isRunning, chemistry, logs, history, logIdRef, intervalRef,
          nextHandle, timers, recommendations, event>>

(* ---------------------------- bounds ---------------------------------- *)
\* ticks allowed in a run of Spec
MaxTicks == 6
\* START clicks allowed in a run
MaxStarts == 2
\* ticks of the fixed warm-up run that SpecLong starts from
WarmTicks == 12
\* free ticks allowed after the warm-up in SpecLong
MaxLongTicks == 4
\* ticks allowed in a run of SpecUnit
MaxUnitTicks == 1

(* ------------------------ program constants --------------------------- *)
Unit == 2
Half == 1
LogCap == 5
HistoryCap == 15
NoHandle == 0
FirstHandle == 1

(* ----------------------------- strings -------------------------------- *)
physical_touch == <<"p","h","y","s","i","c","a","l","_","t","o","u","c","h">>
argument == <<"a","r","g","u","m","e","n","t">>
deep_talk == <<"d","e","e","p","_","t","a","l","k">>
none == <<"n","o","n","e">>

\* const events = [...] of the interval callback
events == <<physical_touch, argument, deep_talk, none, none>>

LowerCase == <<"a","b","c","d","e","f","g","h","i","j","k","l","m",
               "n","o","p","q","r","s","t","u","v","w","x","y","z">>
UpperCase == <<"A","B","C","D","E","F","G","H","I","J","K","L","M",
               "N","O","P","Q","R","S","T","U","V","W","X","Y","Z">>

\* String.prototype.toUpperCase, one character
toUpperChar(c) ==
    IF \E i \in 1..Len(LowerCase) : LowerCase[i] = c
    THEN UpperCase[CHOOSE i \in 1..Len(LowerCase) : LowerCase[i] = c]
    ELSE c

\* String.prototype.toUpperCase
toUpperCase(s) == [i \in 1..Len(s) |-> toUpperChar(s[i])]

\* String.prototype.replace with a string pattern: the first occurrence only
replace(s, pat, by) ==
    IF \E i \in 1..Len(s) : s[i] = pat
    THEN LET first == CHOOSE i \in 1..Len(s) :
                          s[i] = pat /\ \A j \in 1..(i - 1) : s[j] # pat
         IN  [i \in 1..Len(s) |-> IF i = first THEN by ELSE s[i]]
    ELSE s

\* event.replace('_', ' ').toUpperCase()
EventLabel(e) == toUpperCase(replace(e, "_", " "))

(* ---------------------------- chemistry ------------------------------- *)
Max(a, b) == IF a > b THEN a ELSE b
Min(a, b) == IF a < b THEN a ELSE b

\* useState<Chemistry>({ Dopamine: 50, Oxytocin: 50, Cortisol: 20 })
InitialChemistry ==
    [Dopamine |-> 50 * Unit, Oxytocin |-> 50 * Unit, Cortisol |-> 20 * Unit]

\* the if / else-if chain of updateBioData, before the clamp
Transition_argSwap(prev, interactionType) ==
    IF interactionType = physical_touch THEN
        [Dopamine |-> prev.Dopamine + 5 * Unit,
         Oxytocin |-> prev.Oxytocin + 15 * Unit,
         Cortisol |-> prev.Cortisol - 5 * Unit]
    ELSE IF interactionType = argument THEN
        [Dopamine |-> prev.Dopamine - 8 * Unit,
         Oxytocin |-> prev.Oxytocin - 10 * Unit,
         Cortisol |-> prev.Cortisol + 20 * Unit]
    ELSE IF interactionType = deep_talk THEN
        [Dopamine |-> prev.Dopamine + 8 * Unit,
         Oxytocin |-> prev.Oxytocin + 12 * Unit,
         Cortisol |-> prev.Cortisol - 3 * Unit]
    ELSE IF interactionType = none THEN
        [Dopamine |-> IF prev.Dopamine > 50 * Unit
                      THEN prev.Dopamine - Half ELSE prev.Dopamine + Half,
         Oxytocin |-> IF prev.Oxytocin > 50 * Unit
                      THEN prev.Oxytocin - Half ELSE prev.Oxytocin + Half,
         Cortisol |-> IF prev.Cortisol > 20 * Unit
                      THEN prev.Cortisol - Half ELSE prev.Cortisol + Half]
    ELSE prev
Transition_noneUnit(prev, interactionType) ==
    IF interactionType = physical_touch THEN
        [Dopamine |-> prev.Dopamine + 5 * Unit,
         Oxytocin |-> prev.Oxytocin + 15 * Unit,
         Cortisol |-> prev.Cortisol - 5 * Unit]
    ELSE IF interactionType = argument THEN
        [Dopamine |-> prev.Dopamine - 10 * Unit,
         Oxytocin |-> prev.Oxytocin - 8 * Unit,
         Cortisol |-> prev.Cortisol + 20 * Unit]
    ELSE IF interactionType = deep_talk THEN
        [Dopamine |-> prev.Dopamine + 8 * Unit,
         Oxytocin |-> prev.Oxytocin + 12 * Unit,
         Cortisol |-> prev.Cortisol - 3 * Unit]
    ELSE IF interactionType = none THEN
        [Dopamine |-> IF prev.Dopamine > 50 * Unit
                      THEN prev.Dopamine - Unit ELSE prev.Dopamine + Unit,
         Oxytocin |-> IF prev.Oxytocin > 50 * Unit
                      THEN prev.Oxytocin - Unit ELSE prev.Oxytocin + Unit,
         Cortisol |-> IF prev.Cortisol > 20 * Unit
                      THEN prev.Cortisol - Unit ELSE prev.Cortisol + Unit]
    ELSE prev
Transition(prev, interactionType) ==
    IF interactionType = physical_touch THEN
        [Dopamine |-> prev.Dopamine + 5 * Unit,
         Oxytocin |-> prev.Oxytocin + 15 * Unit,
         Cortisol |-> prev.Cortisol - 5 * Unit]
    ELSE IF interactionType = argument THEN
        [Dopamine |-> prev.Dopamine - 10 * Unit,
         Oxytocin |-> prev.Oxytocin - 8 * Unit,
         Cortisol |-> prev.Cortisol + 20 * Unit]
    ELSE IF interactionType = deep_talk THEN
        [Dopamine |-> prev.Dopamine + 8 * Unit,
         Oxytocin |-> prev.Oxytocin + 12 * Unit,
         Cortisol |-> prev.Cortisol - 3 * Unit]
    ELSE IF interactionType = none THEN
        [Dopamine |-> IF prev.Dopamine > 50 * Unit
                      THEN prev.Dopamine - Half ELSE prev.Dopamine + Half,
         Oxytocin |-> IF prev.Oxytocin > 50 * Unit
                      THEN prev.Oxytocin - Half ELSE prev.Oxytocin + Half,
         Cortisol |-> IF prev.Cortisol > 20 * Unit
                      THEN prev.Cortisol - Half ELSE prev.Cortisol + Half]
    ELSE prev

\* Math.max(0, Math.min(100, v))
Clamp_none(v) == v
Clamp(v) == Max(0, Min(100 * Unit, v))

\* the updater passed to setChemistry: prev => clamped next
updateBioData(prev, interactionType) ==
    LET next == Transition(prev, interactionType)
    IN  [Dopamine |-> Clamp(next.Dopamine),
         Oxytocin |-> Clamp(next.Oxytocin),
         Cortisol |-> Clamp(next.Cortisol)]

(* ------------------------- recommendations ---------------------------- *)
STRESS_ALERT == "STRESS ALERT"
BONDING_DEFICIT == "BONDING DEFICIT"
LOW_REWARD == "LOW REWARD"
OPTIMAL_STATE == "OPTIMAL STATE"

\* the body of the useMemo: the list of recommendation types
Recommend_inclusive(chem) ==
    LET l1 == IF chem.Cortisol >= 60 * Unit THEN <<STRESS_ALERT>> ELSE <<>>
        l2 == IF chem.Oxytocin <= 40 * Unit
              THEN Append(l1, BONDING_DEFICIT) ELSE l1
        l3 == IF chem.Dopamine <= 30 * Unit
              THEN Append(l2, LOW_REWARD) ELSE l2
    IN  IF Len(l3) = 0 THEN <<OPTIMAL_STATE>> ELSE l3
Recommend_noFallback(chem) ==
    LET l1 == IF chem.Cortisol > 60 * Unit THEN <<STRESS_ALERT>> ELSE <<>>
        l2 == IF chem.Oxytocin < 40 * Unit
              THEN Append(l1, BONDING_DEFICIT) ELSE l1
    IN  IF chem.Dopamine < 30 * Unit THEN Append(l2, LOW_REWARD) ELSE l2
Recommend(chem) ==
    LET l1 == IF chem.Cortisol > 60 * Unit THEN <<STRESS_ALERT>> ELSE <<>>
        l2 == IF chem.Oxytocin < 40 * Unit
              THEN Append(l1, BONDING_DEFICIT) ELSE l1
        l3 == IF chem.Dopamine < 30 * Unit
              THEN Append(l2, LOW_REWARD) ELSE l2
    IN  IF Len(l3) = 0 THEN <<OPTIMAL_STATE>> ELSE l3

(* ----------------------- rolling buffers ------------------------------ *)
\* [newLog, ...prev].slice(0, 5)
PushLog_append(prev, newLog) ==
    LET all == Append(prev, newLog)
    IN  SubSeq(all, 1, Min(Len(all), LogCap))
PushLog_keepOld(prev, newLog) ==
    LET all == <<newLog>> \o prev
    IN  SubSeq(all, Max(1, Len(all) - LogCap + 1), Len(all))
PushLog(prev, newLog) ==
    LET all == <<newLog>> \o prev
    IN  SubSeq(all, 1, Min(Len(all), LogCap))

\* [...prev, newPoint].slice(-15)
PushHistory_noSlice(prev, newPoint) == Append(prev, newPoint)
PushHistory_head(prev, newPoint) ==
    LET all == Append(prev, newPoint)
    IN  SubSeq(all, 1, Min(Len(all), HistoryCap))
PushHistory(prev, newPoint) ==
    LET all == Append(prev, newPoint)
    IN  SubSeq(all, Max(1, Len(all) - HistoryCap + 1), Len(all))

(* ------------------ the component as a state record ------------------- *)
\* the state of the component after its hooks ran with the given initial
\* chemistry and its effect ran once (isRunning false, intervalRef null:
\* neither branch of the effect does anything)
Mounted(chem) ==
    [isRunning |-> FALSE, chemistry |-> chem, logs |-> <<>>,
     history |-> <<>>, logIdRef |-> 0, intervalRef |-> NoHandle,
     nextHandle |-> FirstHandle, timers |-> {},
     recommendations |-> Recommend(chem), event |-> <<>>]

\* the cleanup returned by the effect:
\*   if (intervalRef.current) clearInterval(intervalRef.current)
Cleanup_missing(st) == st
Cleanup(st) ==
    IF st.intervalRef # NoHandle
    THEN [st EXCEPT !.timers = {t \in @ : t.id # st.intervalRef}]
    ELSE st

\* the body of the effect, run for the render that shows state st
EffectBody_noRef(st) ==
    IF st.isRunning
    THEN [st EXCEPT !.nextHandle = @ + 1,
                    !.timers = @ \cup {[id |-> st.nextHandle,
                                        chemistry |-> st.chemistry]}]
    ELSE IF st.intervalRef # NoHandle
    THEN [st EXCEPT !.timers = {t \in @ : t.id # st.intervalRef}]
    ELSE st
EffectBody_onlyIfNull(st) ==
    IF st.isRunning /\ st.intervalRef = NoHandle
    THEN [st EXCEPT !.intervalRef = st.nextHandle,
                    !.nextHandle = @ + 1,
                    !.timers = @ \cup {[id |-> st.nextHandle,
                                        chemistry |-> st.chemistry]}]
    ELSE IF ~st.isRunning /\ st.intervalRef # NoHandle
    THEN [st EXCEPT !.timers = {t \in @ : t.id # st.intervalRef}]
    ELSE st
EffectBody(st) ==
    IF st.isRunning
    THEN [st EXCEPT !.intervalRef = st.nextHandle,
                    !.nextHandle = @ + 1,
                    !.timers = @ \cup {[id |-> st.nextHandle,
                                        chemistry |-> st.chemistry]}]
    ELSE IF st.intervalRef # NoHandle
    THEN [st EXCEPT !.timers = {t \in @ : t.id # st.intervalRef}]
    ELSE st

\* the dependency list [isRunning, chemistry] of the effect: did it change
\* between two renders?  chemReplaced: setChemistry installed a new object.
DepsChanged_chemOnly(wasRunning, nowRunning, chemReplaced) ==
    chemReplaced
DepsChanged_runningOnly(wasRunning, nowRunning, chemReplaced) ==
    wasRunning # nowRunning
DepsChanged(wasRunning, nowRunning, chemReplaced) ==
    wasRunning # nowRunning \/ chemReplaced

\* the dependency list [chemistry] of the useMemo
MemoStale(chemReplaced) == chemReplaced

\* the render that follows a batch of state updates, with its effects:
\* old is the state shown by the previous render, new the updated state.
Render(old, new, chemReplaced) ==
    LET shown == IF MemoStale(chemReplaced)
                 THEN [new EXCEPT !.recommendations = Recommend(new.chemistry)]
                 ELSE new
    IN  IF DepsChanged(old.isRunning, new.isRunning, chemReplaced)
        THEN EffectBody(Cleanup(shown))
        ELSE shown

\* onClick={() => setIsRunning(!isRunning)}, and the render it causes
Click_resetIds(st) ==
    Render(st, [st EXCEPT !.isRunning = ~st.isRunning, !.logIdRef = 0], FALSE)
Click(st) == Render(st, [st EXCEPT !.isRunning = ~st.isRunning], FALSE)

\* the snapshot the callback writes: { ...chemistry } of its closure
Snapshot(t, st) == t.chemistry

\* one firing of the interval callback of timer t with the drawn event e,
\* and the render it causes
IntervalCallback(st, t, e) ==
    LET newLog == [id |-> st.logIdRef, event |-> EventLabel(e),
                   data |-> Snapshot(t, st)]
        newPoint == Snapshot(t, st)
        updated == [st EXCEPT
                      !.event = e,
                      !.chemistry = updateBioData(st.chemistry, e),
                      !.logIdRef = @ + 1,
                      !.logs = PushLog(@, newLog),
                      !.history = PushHistory(@, newPoint)]
    IN  Render(st, updated, TRUE)

(* --------------------------- the machine ------------------------------ *)
Current ==
    [isRunning |-> isRunning, chemistry |-> chemistry, logs |-> logs,
     history |-> history, logIdRef |-> logIdRef, intervalRef |-> intervalRef,
     nextHandle |-> nextHandle, timers |-> timers,
     recommendations |-> recommendations, event |-> event]

Becomes(st) ==
    /\ isRunning' = st.isRunning
    /\ chemistry' = st.chemistry
    /\ logs' = st.logs
    /\ history' = st.history
    /\ logIdRef' = st.logIdRef
    /\ intervalRef' = st.intervalRef
    /\ nextHandle' = st.nextHandle
    /\ timers' = st.timers
    /\ recommendations' = st.recommendations
    /\ event' = st.event

Is(st) ==
    /\ isRunning = st.isRunning
    /\ chemistry = st.chemistry
    /\ logs = st.logs
    /\ history = st.history
    /\ logIdRef = st.logIdRef
    /\ intervalRef = st.intervalRef
    /\ nextHandle = st.nextHandle
    /\ timers = st.timers
    /\ recommendations = st.recommendations
    /\ event = st.event

\* START clicks so far: every setInterval call is a start or a tick
Starts == nextHandle - FirstHandle - logIdRef

Init == Is(Mounted(InitialChemistry))

\* a click on the button while it reads START
Start ==
    /\ ~isRunning
    /\ Starts < MaxStarts
    /\ Becomes(Click(Current))

\* a click on the button while it reads STOP
Stop ==
    /\ isRunning
    /\ Becomes(Click(Current))

\* an interval the browser holds fires; Math.random picks events[i]
Tick(limit) ==
    /\ logIdRef < limit
    /\ \E t \in timers : \E i \in 1..Len(events) :
           Becomes(IntervalCallback(Current, t, events[i]))

Next == Start \/ Stop \/ Tick(MaxTicks)

Spec == Init /\ [][Next]_vars

\* a tick, seen from the callback's id counter: some interval is held and
\* logIdRef.current++ has run.  Under Next the steps that satisfy it are
\* exactly the Tick steps, and it is enabled exactly when Tick is.
TimerFires ==
    /\ logIdRef < MaxTicks
    /\ timers # {}
    /\ logIdRef' = logIdRef + 1

\* the browser fires an interval it holds: a tick that stays possible is
\* eventually taken
SpecFair == Spec /\ WF_logIdRef(TimerFires)

(* ------------- long runs: a fixed warm-up, then free ticks ------------ *)
\* the state after START and n ticks that draw events[1], events[2], ...
\* in turn (a run of the component, computed with its own steps)
RECURSIVE WarmedUp(_)
WarmedUp(n) ==
    IF n = 0 THEN Click(Mounted(InitialChemistry))
    ELSE LET st == WarmedUp(n - 1)
             t == CHOOSE x \in st.timers : TRUE
         IN  IntervalCallback(st, t, events[((n - 1) % Len(events)) + 1])

InitLong == Is(WarmedUp(WarmTicks))

NextLong == Start \/ Stop \/ Tick(WarmTicks + MaxLongTicks)

SpecLong == InitLong /\ [][NextLong]_vars

(* ------- the transition on arbitrary in-range chemistry states -------- *)
Levels == 0..(100 * Unit)
Pivots == {0, 20 * Unit, 50 * Unit, 100 * Unit}

\* every level for one field, the other two on pivot values
ProbeStates ==
    {[Dopamine |-> v, Oxytocin |-> p, Cortisol |-> q] :
        v \in Levels, p \in Pivots, q \in Pivots}
    \cup {[Dopamine |-> p, Oxytocin |-> v, Cortisol |-> q] :
        v \in Levels, p \in Pivots, q \in Pivots}
    \cup {[Dopamine |-> p, Oxytocin |-> q, Cortisol |-> v] :
        v \in Levels, p \in Pivots, q \in Pivots}

\* the component mounted with a probe state as its initial chemistry
InitUnit == \E c \in ProbeStates : Is(Mounted(c))

NextUnit == Start \/ Stop \/ Tick(MaxUnitTicks)

SpecUnit == InitUnit /\ [][NextUnit]_vars

(* ============================== claims ================================ *)
Fields == {"Dopamine", "Oxytocin", "Cortisol"}

\* C1: in every state reachable from {50, 50, 20} by start, stop and tick
\* steps, each of dopamine, oxytocin and cortisol lies in [0, 100].
C1_LevelsInRange ==
    \A f \in Fields : chemistry[f] >= 0 /\ chemistry[f] <= 100 * Unit

\* the clamp has acted: an argument on cortisol 100 left it at 100
C1_Witness ==
    /\ logIdRef > 0
    /\ event = argument
    /\ logs[1].data.Cortisol = 100 * Unit
    /\ chemistry.Cortisol = 100 * Unit

\* C2: in every reachable state the history holds at most 15 points and
\* the log at most 5 entries.
C2_BuffersBounded == Len(history) <= 15 /\ Len(logs) <= 5

\* both buffers are full and a further tick has been taken, after a restart
C2_Witness ==
    /\ Len(history) = 15
    /\ Len(logs) = 5
    /\ logIdRef > 15
    /\ Starts > 1

\* C3 (as claimed): after any tick the last point of the history equals
\* the current chemistry state, the one that tick produced.
C3_HistoryHoldsNewState ==
    history # <<>> => history[Len(history)] = chemistry

\* C4: every tick puts at the head of the log an entry whose event is the
\* kind drawn for that tick and whose snapshot is the chemistry state as it
\* was immediately before the tick's transition.
C4_Label(k) ==
    IF k = physical_touch
    THEN <<"P","H","Y","S","I","C","A","L"," ","T","O","U","C","H">>
    ELSE IF k = argument THEN <<"A","R","G","U","M","E","N","T">>
    ELSE IF k = deep_talk THEN <<"D","E","E","P"," ","T","A","L","K">>
    ELSE <<"N","O","N","E">>

C4_LogHeadIsPreTick ==
    [][logIdRef' # logIdRef =>
          /\ event' \in {physical_touch, argument, deep_talk, none}
          /\ chemistry' = updateBioData(chemistry, event')
          /\ logs' # <<>>
          /\ logs'[1].event = C4_Label(event')
          /\ logs'[1].data = chemistry]_vars

\* a later tick: its snapshot is neither the initial nor the new state
C4_Witness ==
    /\ logIdRef > 1
    /\ logs[1].event = C4_Label(deep_talk)
    /\ logs[1].data # InitialChemistry
    /\ logs[1].data # chemistry
    /\ chemistry = updateBioData(logs[1].data, deep_talk)

\* C5: in every reachable state the recommendation list is non-empty, and
\* when cortisol <= 60, oxytocin >= 40 and dopamine >= 30 it is exactly the
\* one Optimal entry.
C5_RecommendationComplete ==
    /\ recommendations # <<>>
    /\ (/\ chemistry.Cortisol <= 60 * Unit
        /\ chemistry.Oxytocin >= 40 * Unit
        /\ chemistry.Dopamine >= 30 * Unit)
       => recommendations = <<OPTIMAL_STATE>>

\* the list went from an alert back to Optimal by a tick
C5_Witness ==
    /\ logIdRef > 1
    /\ logs[1].data.Oxytocin < 40 * Unit
    /\ chemistry.Oxytocin >= 40 * Unit
    /\ chemistry.Cortisol <= 60 * Unit
    /\ chemistry.Dopamine >= 30 * Unit
    /\ recommendations = <<OPTIMAL_STATE>>

\* C6: the published list contains StressAlert exactly when cortisol > 60,
\* BondingDeficit exactly when oxytocin < 40, LowReward exactly when
\* dopamine < 30, in that relative order, and Optimal exactly when none of
\* the three is present; it is derived from the current chemistry state.
C6_Rank(x) ==
    IF x = STRESS_ALERT THEN 1
    ELSE IF x = BONDING_DEFICIT THEN 2
    ELSE IF x = LOW_REWARD THEN 3
    ELSE 4

C6_Has(x) == \E i \in DOMAIN recommendations : recommendations[i] = x

C6_RecommendationDerivation ==
    /\ \A i \in DOMAIN recommendations :
           recommendations[i] \in
               {STRESS_ALERT, BONDING_DEFICIT, LOW_REWARD, OPTIMAL_STATE}
    /\ C6_Has(STRESS_ALERT) <=> chemistry.Cortisol > 60 * Unit
    /\ C6_Has(BONDING_DEFICIT) <=> chemistry.Oxytocin < 40 * Unit
    /\ C6_Has(LOW_REWARD) <=> chemistry.Dopamine < 30 * Unit
    /\ C6_Has(OPTIMAL_STATE) <=>
           ~(\/ C6_Has(STRESS_ALERT)
             \/ C6_Has(BONDING_DEFICIT)
             \/ C6_Has(LOW_REWARD))
    /\ \A i, j \in DOMAIN recommendations :
           i < j => C6_Rank(recommendations[i]) < C6_Rank(recommendations[j])

\* after a tick: all three alerts, cortisol just above its threshold
C6_Witness ==
    /\ logIdRef = 1
    /\ chemistry.Cortisol = 60 * Unit + Half
    /\ recommendations = <<STRESS_ALERT, BONDING_DEFICIT, LOW_REWARD>>

\* C7: at most one timer is active in every reachable state, and exactly
\* one while Running, whatever the sequence of start, stop and tick steps.
C7_OneTimer ==
    /\ Cardinality(timers) <= 1
    /\ isRunning => Cardinality(timers) = 1

\* Running again after a stop and a start, with ticks taken
C7_Witness ==
    /\ isRunning
    /\ Starts = 2
    /\ logIdRef > 1
    /\ Cardinality(timers) = 1

\* C8: after a stop no timer callback is pending, and until the next start
\* the chemistry state, the log and the history do not change.
C8_NoTickWhileStopped ==
    /\ [](~isRunning => timers = {})
    /\ [][(~isRunning /\ ~isRunning') =>
              /\ chemistry' = chemistry
              /\ logs' = logs
              /\ history' = history]_vars

\* stopped after ticks: the handle is still in intervalRef, no timer is
C8_Witness ==
    /\ ~isRunning
    /\ logIdRef > 0
    /\ intervalRef # NoHandle
    /\ timers = {}

\* C10: one tick of PhysicalTouch, Argument or DeepTalk yields the
\* field-wise clamp to [0, 100] of the old state plus the kind's deltas
\* (PhysicalTouch +5, +15, -5; Argument -10, -8, +20; DeepTalk +8, +12, -3
\* for dopamine, oxytocin, cortisol); {50,50,20} gives {40,42,40} by
\* Argument and {55,65,15} by PhysicalTouch, {0,0,0} gives {0,0,20} by
\* Argument.
C10_Delta(k) ==
    IF k = physical_touch
    THEN [Dopamine |-> 5, Oxytocin |-> 15, Cortisol |-> -5]
    ELSE IF k = argument
    THEN [Dopamine |-> -10, Oxytocin |-> -8, Cortisol |-> 20]
    ELSE [Dopamine |-> 8, Oxytocin |-> 12, Cortisol |-> -3]

C10_Expected(old, k) ==
    [f \in Fields |->
        LET sum == old[f] + C10_Delta(k)[f] * Unit
        IN  IF sum < 0 THEN 0
            ELSE IF sum > 100 * Unit THEN 100 * Unit ELSE sum]

C10_Chem(d, o, c) ==
    [Dopamine |-> d * Unit, Oxytocin |-> o * Unit, Cortisol |-> c * Unit]

C10_TickTransition ==
    [][logIdRef' # logIdRef =>
          /\ \A k \in {physical_touch, argument, deep_talk} :
                 event' = k => chemistry' = C10_Expected(chemistry, k)
          /\ (chemistry = C10_Chem(50, 50, 20) /\ event' = argument)
                 => chemistry' = C10_Chem(40, 42, 40)
          /\ (chemistry = C10_Chem(50, 50, 20) /\ event' = physical_touch)
                 => chemistry' = C10_Chem(55, 65, 15)
          /\ (chemistry = C10_Chem(0, 0, 0) /\ event' = argument)
                 => chemistry' = C10_Chem(0, 0, 20)]_vars

\* an Argument tick has been applied to {0, 0, 0}
C10_Witness ==
    /\ logIdRef = 1
    /\ event = argument
    /\ logs[1].data = C10_Chem(0, 0, 0)
    /\ chemistry = C10_Chem(0, 0, 20)

\* C11 (as claimed): from the baseline {50, 50, 20}, consecutive None ticks
\* leave the chemistry state unchanged: while every tick so far was a None
\* tick, the state is {50, 50, 20}.
C11_NoneTicksKeepBaseline ==
    (/\ logIdRef = Len(logs)
     /\ \A i \in DOMAIN logs : logs[i].event = <<"N","O","N","E">>)
    => chemistry = InitialChemistry

\* C12: the engine starts Idle with an empty log and an empty history; a
\* step changes the running flag only as Idle -> Running or Running -> Idle
\* and ticks only while Running; there is no terminal state: whenever the
\* engine is Running (for the first time or again) it holds a live interval,
\* the one whose handle is in intervalRef, so it can tick and be stopped.
C12_Lifecycle ==
    /\ (~isRunning /\ logs = <<>> /\ history = <<>>)
    /\ [][\/ ~isRunning /\ isRunning' /\ logIdRef' = logIdRef
          \/ isRunning /\ ~isRunning' /\ logIdRef' = logIdRef
          \/ isRunning /\ isRunning' /\ logIdRef' = logIdRef + 1]_vars
    /\ [](isRunning => \E t \in timers : t.id = intervalRef)

\* Running for the second time, ticks taken, a live interval to tick again
C12_Witness ==
    /\ isRunning
    /\ Starts = 2
    /\ logIdRef > 0
    /\ \E t \in timers : t.id = intervalRef /\ t.chemistry = chemistry

\* C14: a None tick changes each field by exactly 0.5: a field strictly
\* above its baseline (50 for dopamine and oxytocin, 20 for cortisol) goes
\* down by 0.5, any other field goes up by 0.5; so a field that is not at
\* its baseline gets exactly 0.5 closer to it and does not pass it.
C14_Baseline(f) == IF f = "Cortisol" THEN 20 * Unit ELSE 50 * Unit

C14_Dist(v, b) == IF v > b THEN v - b ELSE b - v

C14_NoneDrift ==
    [][(logIdRef' # logIdRef /\ event' = none) =>
          \A f \in Fields :
              LET b == C14_Baseline(f)
                  v == chemistry[f]
                  w == chemistry'[f]
              IN  /\ w = IF v > b THEN v - Half ELSE v + Half
                  /\ v # b => /\ C14_Dist(w, b) = C14_Dist(v, b) - Half
                              /\ (v > b => w >= b)
                              /\ (v < b => w <= b)]_vars

\* a None tick took cortisol from 20.5 onto its baseline and dopamine up
\* from the lower end of the range
C14_Witness ==
    /\ logIdRef = 1
    /\ event = none
    /\ logs[1].data.Cortisol = 20 * Unit + Half
    /\ chemistry.Cortisol = 20 * Unit
    /\ logs[1].data.Dopamine = 0
    /\ chemistry.Dopamine = Half

\* C15: after n ticks in total, across stop/start cycles, the log holds
\* exactly min(n, 5) entries, newest first: the ids go down from the head
\* in steps of 1, the head id is n - 1, and the next id (n) is unused.
\* n is counted by the history, which gains one point per tick until it is
\* full.
C15_LogIds ==
    LET n == Len(history)
    IN  n < 15 =>
            /\ Len(logs) = IF n < 5 THEN n ELSE 5
            /\ \A i \in DOMAIN logs : logs[i].id = n - i
            /\ logIdRef = n

\* six ticks over two runs: the entry with id 0 has been dropped
C15_Witness ==
    /\ Len(history) = 6
    /\ Starts = 2
    /\ Len(logs) = 5
    /\ logs[1].id = 5
    /\ logs[5].id = 1

\* C16: after n ticks in total the history holds exactly min(n, 15) points
\* in tick order, newest last: a tick appends its point at the end, and when
\* the buffer is full it drops exactly the oldest point and moves the others
\* one position toward the front unchanged.
C16_HistoryWindow ==
    /\ [](Len(history) = IF logIdRef < 15 THEN logIdRef ELSE 15)
    /\ [][logIdRef' # logIdRef =>
              LET kept == IF Len(history) = 15 THEN Tail(history)
                          ELSE history
              IN  /\ Len(history') = Len(kept) + 1
                  /\ SubSeq(history', 1, Len(kept)) = kept]_vars

\* the sixteenth tick has pushed the first point out of the full buffer
C16_Witness ==
    /\ logIdRef = 16
    /\ Len(history) = 15
    /\ history[1] # InitialChemistry
    /\ history[15] = logs[1].data

\* C17: while the engine stays Running, ticks keep occurring: under
\* fairness of the timer, every state in which the engine is Running (and
\* the run bound MaxTicks leaves a tick to take) is eventually followed by
\* a tick or by a stop, although every tick clears the interval and creates
\* a new one.
C17_TicksKeepComing ==
    \A n \in 0..(MaxTicks - 1) :
        (isRunning /\ logIdRef = n) ~> (~isRunning \/ logIdRef > n)

\* Running on an interval that ticks have cleared and created again
C17_Witness ==
    /\ isRunning
    /\ logIdRef > 1
    /\ intervalRef > FirstHandle + 1
    /\ timers = {[id |-> intervalRef, chemistry |-> chemistry]}

\* C18: the log entry and the history point written by one tick carry the
\* same chemistry snapshot: for each i below the log length, the snapshot
\* of log entry i (from the head) equals the history point i positions from
\* the end of the history.
C18_LogMatchesHistory ==
    \A i \in 0..(Len(logs) - 1) :
        /\ i < Len(history)
        /\ logs[i + 1].data = history[Len(history) - i]

\* both buffers full and truncated, the compared snapshots not all alike
C18_Witness ==
    /\ Len(logs) = 5
    /\ Len(history) = 15
    /\ logIdRef > 15
    /\ logs[5].data = history[11]
    /\ logs[5].data # logs[1].data

\* C19: start and stop change only the running flag and the timer: a step
\* that flips the flag leaves the chemistry state, the log, the history and
\* the log-id counter as they were, so the first tick after a restart takes
\* the id that follows the log's head instead of starting again at 0.
C19_StartStopFrame ==
    [][/\ isRunning' # isRunning =>
              /\ chemistry' = chemistry
              /\ logs' = logs
              /\ history' = history
              /\ logIdRef' = logIdRef
       /\ (logIdRef' # logIdRef /\ logs # <<>>) =>
              logs'[1].id = logs[1].id + 1]_vars

\* restarted with the state of the first run retained and ticking on
C19_Witness ==
    /\ isRunning
    /\ Starts = 2
    /\ chemistry # InitialChemistry
    /\ Len(logs) > 1
    /\ logs[1].id = logIdRef - 1
    /\ history # <<>>

====
